---- MODULE Spec2Model ----
(***************************************************************************)
(* Model of brother_ql_web.py: the web front-end that uploads, previews,   *)
(* deletes and prints label images on Brother QL printers.                 *)
(*                                                                         *)
(* Python values are written as follows.  A str is a TLA+ string, except   *)
(* file names and extensions, which are tuples of one-character strings so *)
(* that os.path.splitext can be computed.  A Python int is the string of   *)
(* its numeral preceded by "#" ("#0", "#90"), the boolean False is         *)
(* "False"; a dict is a record holding exactly the keys that are set.      *)
(***************************************************************************)
EXTENDS Integers, Sequences, FiniteSets, TLC

VARIABLES phase, CONFIG, PORT, LOGLEVEL, DEBUG, BACKEND_CLASS,
          dir, FILE_NAMES, req, resp, calls, liveHandles

vars == <<phase, CONFIG, PORT, LOGLEVEL, DEBUG, BACKEND_CLASS,
          dir, FILE_NAMES, req, resp, calls, liveHandles>>

(***************************************************************************)
(* Bounds of the model.                                                    *)
(***************************************************************************)
\* cap on the count of backend handles that were constructed and never disposed
MaxLiveHandles == 1

(***************************************************************************)
(* File names and os.path.splitext                                         *)
(***************************************************************************)
IMAGE_PNG == <<"i", "m", "a", "g", "e", ".", "p", "n", "g">>
B_JPG     == <<"b", ".", "j", "p", "g">>
C_TXT     == <<"c", ".", "t", "x", "t">>
D_UPPER   == <<"d", ".", "P", "N", "G">>
DOT_PNG   == <<".", "p", "n", "g">>
OLD_1_BMP == <<"o", "l", "d", " ", "1", ".", "b", "m", "p">>

\* the names of directory entries, which are the names a request may carry
Names == {IMAGE_PNG, B_JPG, C_TXT, D_UPPER, DOT_PNG, OLD_1_BMP}

\* upload.filename: bottle strips leading dots and replaces whitespace, so
\* ".png" and "old 1.bmp" are names no upload carries
UploadNames == {IMAGE_PNG, B_JPG, C_TXT, D_UPPER}

IMAGE_EXTENSIONS ==
    { <<".", "p", "n", "g">>, <<".", "j", "p", "g">>,
      <<".", "j", "p", "e", "g">>, <<".", "b", "m", "p">> }

\* the extension test with only "is there an extension" left of it
Allowed_AnyExtension(ext) == ext # <<>>

\* `ext in IMAGE_EXTENSIONS`
Allowed(ext) == ext \in IMAGE_EXTENSIONS

\* str.rfind('.') + 1, so 0 when there is no dot
RFindDot(p) ==
    LET idx == {i \in 1..Len(p) : p[i] = "."}
    IN  IF idx = {} THEN 0 ELSE CHOOSE i \in idx : \A j \in idx : j <= i

\* os.path.splitext(p)[1] for a name without directory separators: the
\* suffix from the last dot, unless only dots precede that dot
splitext_ext(p) ==
    LET dotIndex == RFindDot(p)
    IN  IF dotIndex > 0 /\ \E k \in 1..(dotIndex - 1) : p[k] # "."
        THEN SubSeq(p, dotIndex, Len(p))
        ELSE <<>>

(***************************************************************************)
(* The image directory ./img/.  An entry is "none" (no such entry), a      *)
(* regular file, given by its content ("c1" or "c2"), "dir" (a             *)
(* subdirectory) or "dirfull" (a subdirectory that holds a file of its own *)
(* name).  Every content is an image that PIL opens; an encoder that      *)
(* raises is a choice of the print request itself.                         *)
(***************************************************************************)
Contents == {"c1", "c2"}

\* os.path.isfile(os.path.join(IMG_DIR, f))
isfile(d, f) == d[f] \in Contents

\* os.path.exists(os.path.join(IMG_DIR, f))
exists(d, f) == d[f] # "none"

\* os.path.isdir(os.path.join(IMG_DIR, f))
isdir(d, f) == d[f] \in {"dir", "dirfull"}

\* the names os.listdir(IMG_DIR) yields that update_files keeps
Listed(d) ==
    {f \in Names : exists(d, f) /\ isfile(d, f) /\ Allowed(splitext_ext(f))}

\* the orders in which os.listdir may enumerate a set of names
Orders(S) ==
    {s \in [1..Cardinality(S) -> S] : \A i, j \in 1..Cardinality(S) : s[i] = s[j] => i = j}

InList(x, l) == \E i \in 1..Len(l) : l[i] = x

Count(x, l) == Cardinality({i \in 1..Len(l) : l[i] = x})

(***************************************************************************)
(* The brother_ql library, as far as this program consults it.             *)
(***************************************************************************)
ENDLESS_LABEL        == "ENDLESS_LABEL"
DIE_CUT_LABEL        == "DIE_CUT_LABEL"
ROUND_DIE_CUT_LABEL  == "ROUND_DIE_CUT_LABEL"
PTOUCH_ENDLESS_LABEL == "PTOUCH_ENDLESS_LABEL"

\* brother_ql.devicedependent.label_sizes (a sample of the catalog, one size
\* of each kind the library knows)
label_sizes == {"62", "29x90", "d24", "pt12"}

\* label_type_specs[size]['kind']
label_kind(size) ==
    CASE size = "62"    -> ENDLESS_LABEL
      [] size = "29x90" -> DIE_CUT_LABEL
      [] size = "d24"   -> ROUND_DIE_CUT_LABEL
      [] size = "pt12"  -> PTOUCH_ENDLESS_LABEL

\* guess_backend(descriptor): the backend name, or "ValueError"
guess_backend(descriptor) ==
    CASE descriptor = "tcp://192.168.0.23:9100" -> "network"
      [] descriptor = "file:///dev/usb/lp1"     -> "linux_kernel"
      [] OTHER                                  -> "ValueError"

(***************************************************************************)
(* Module load (lines 23-28) and main()                                    *)
(***************************************************************************)
UNSET  == "<unset>"
ABSENT == "<absent>"

\* config.json / config.example.json as json.load returns them
ConfigFiles ==
    { [SERVER  |-> [PORT |-> "#8013", HOST |-> "", LOGLEVEL |-> lvl],
       PRINTER |-> [MODEL |-> "QL-500", PRINTER |-> prn],
       LABEL   |-> [DEFAULT_SIZE |-> size, DEFAULT_ORIENTATION |-> "standard"]]
      : lvl \in {"WARNING", "DEBUG"},
        prn \in {"file:///dev/usb/lp1", "bogus"},
        size \in {"62", "bogus"} }

\* the command lines: each option is ABSENT or carries its raw string
CommandLines ==
    [port                : {ABSENT, "8080", ""},
     loglevel            : {ABSENT, "debug", "notset"},
     default_label_size  : {ABSENT, "29x90", "bogus"},
     default_orientation : {ABSENT, "rotated"},
     model               : {ABSENT, "QL-700"},
     printer             : {ABSENT, "tcp://192.168.0.23:9100", "bogus"}]

NoArguments == [port |-> ABSENT, loglevel |-> ABSENT, default_label_size |-> ABSENT,
                default_orientation |-> ABSENT, model |-> ABSENT, printer |-> ABSENT]

\* getattr(logging, x.upper())
logging_level(x) ==
    CASE x = "debug"  -> "#10"
      [] x = "notset" -> "#0"

\* parser.parse_args(): an option that is not given has default=False
parse_args(cmd) ==
    [port                |-> IF cmd.port = ABSENT THEN "False" ELSE cmd.port,
     loglevel            |-> IF cmd.loglevel = ABSENT THEN "False"
                             ELSE logging_level(cmd.loglevel),
     default_label_size  |-> IF cmd.default_label_size = ABSENT THEN "False"
                             ELSE cmd.default_label_size,
     default_orientation |-> IF cmd.default_orientation = ABSENT THEN "False"
                             ELSE cmd.default_orientation,
     model               |-> IF cmd.model = ABSENT THEN "False" ELSE cmd.model,
     printer             |-> IF cmd.printer = ABSENT THEN "False" ELSE cmd.printer]

\* Python's truth value of an argument: False, the empty string and 0 are false
Truthy(v) == v \notin {"False", "", "#0"}

\* `if args.x: target = args.x` (else the value from the file stays)
Override(arg, fileValue) == IF Truthy(arg) THEN arg ELSE fileValue

\* lines 216-241: CONFIG after the overrides
ResolvedConfig(cfg, args) ==
    [SERVER  |-> cfg.SERVER,
     PRINTER |-> [MODEL   |-> Override(args.model, cfg.PRINTER.MODEL),
                  PRINTER |-> Override(args.printer, cfg.PRINTER.PRINTER)],
     LABEL   |-> [DEFAULT_SIZE        |-> Override(args.default_label_size,
                                                   cfg.LABEL.DEFAULT_SIZE),
                  DEFAULT_ORIENTATION |-> Override(args.default_orientation,
                                                   cfg.LABEL.DEFAULT_ORIENTATION)]]

\* lines 219-222
ResolvedPort(cfg, args) == Override(args.port, cfg.SERVER.PORT)

\* lines 224-227
ResolvedLoglevel(cfg, args) == Override(args.loglevel, cfg.SERVER.LOGLEVEL)

\* lines 229-232
DebugOf(loglevel) == loglevel = "DEBUG"

\* lines 245-254: where main() ends up
StartupOutcome(cfg) ==
    IF guess_backend(cfg.PRINTER.PRINTER) = "ValueError"
    THEN "error: Couln't guess the backend to use from the printer string descriptor"
    ELSE IF cfg.LABEL.DEFAULT_SIZE \notin label_sizes
         THEN "error: Invalid --default-label-size."
         ELSE "run"

NoRequest == [op |-> "none"]

NoResponse == [kind |-> "none", body |-> ""]

\* main(), run with command line cmd
Main(cmd) ==
    LET args == parse_args(cmd)
        cfg  == ResolvedConfig(CONFIG, args)
        out  == StartupOutcome(cfg)
    IN  /\ phase = "loaded"
        /\ FILE_NAMES' \in Orders(Listed(dir))
        /\ CONFIG' = cfg
        /\ PORT' = ResolvedPort(CONFIG, args)
        /\ LOGLEVEL' = ResolvedLoglevel(CONFIG, args)
        /\ DEBUG' = DebugOf(LOGLEVEL')
        /\ BACKEND_CLASS' = IF guess_backend(cfg.PRINTER.PRINTER) = "ValueError"
                            THEN UNSET
                            ELSE guess_backend(cfg.PRINTER.PRINTER)
        /\ phase' = IF out = "run" THEN "serving" ELSE "exited"
        /\ req' = [op |-> "main", cmd |-> cmd, file |-> CONFIG]
        /\ resp' = IF out = "run" THEN [kind |-> "run", body |-> PORT']
                   ELSE [kind |-> "usage_error", body |-> out]
        /\ UNCHANGED <<dir, calls, liveHandles>>

\* the image directory as the process finds it: image.png may be there;
\* c.txt and .png are stray regular files, "old 1.bmp" is a subdirectory
InitDirs ==
    { [f \in Names |->
         CASE f = IMAGE_PNG -> i
           [] f = C_TXT     -> "c1"
           [] f = DOT_PNG   -> "c1"
           [] f = OLD_1_BMP -> "dir"
           [] OTHER         -> "none"]
      : i \in {"none", "c1"} }

\* the module is loaded: CONFIG is read, nothing else is bound
InitLoaded ==
    /\ phase = "loaded"
    /\ CONFIG \in ConfigFiles
    /\ dir \in InitDirs
    /\ PORT = UNSET
    /\ LOGLEVEL = UNSET
    /\ DEBUG = FALSE
    /\ BACKEND_CLASS = UNSET
    /\ FILE_NAMES = <<>>
    /\ req = NoRequest
    /\ resp = NoResponse
    /\ calls = <<>>
    /\ liveHandles = 0

NextStartup == \E cmd \in CommandLines : Main(cmd)

SpecStartup == InitLoaded /\ [][NextStartup]_vars

(***************************************************************************)
(* The request handlers                                                    *)
(***************************************************************************)
\* the form data of the requests: a field is ABSENT or carries a value.
\* Each handler gets the values that can make a difference to it.
PreviewParams ==
    [file_name : {ABSENT, B_JPG, C_TXT, D_UPPER},
     label_size : {ABSENT, "bogus"},
     orientation : {ABSENT, "rotated+90", "rotated-90"}]

DeleteParams ==
    [file_name : {ABSENT, B_JPG, C_TXT, D_UPPER, DOT_PNG, OLD_1_BMP},
     label_size : {ABSENT, "bogus"},
     orientation : {ABSENT}]

PrintParams ==
    [file_name : {ABSENT, B_JPG, C_TXT, D_UPPER},
     label_size : {ABSENT, "29x90", "d24", "pt12", "bogus"},
     orientation : {ABSENT, "standard", "rotated"}]

\* d.get(key, default)
Get(value, default) == IF value = ABSENT THEN default ELSE value

\* label_type_specs[...] raises KeyError, a LookupError, on an unknown size
ContextRaises(params) == Get(params.label_size, "62") \notin label_sizes

\* get_label_context(request), when the label size is known
get_label_context(params) ==
    [file_name   |-> Get(params.file_name, IMAGE_PNG),
     label_size  |-> Get(params.label_size, "62"),
     kind        |-> label_kind(Get(params.label_size, "62")),
     orientation |-> Get(params.orientation, "standard")]

\* `except LookupError as e: ... e.msg`: a KeyError has no attribute msg, so
\* the handler itself raises and the request ends in an unhandled exception
LookupErrorResponse ==
    [kind |-> "exception", body |-> "AttributeError: 'KeyError' object has no attribute 'msg'"]

Redirect == [kind |-> "redirect", body |-> "/labeldesigner"]

PlainText(msg) == [kind |-> "text", body |-> msg]

Json(return_dict) == [kind |-> "json", body |-> return_dict]

Raised(what) == [kind |-> "exception", body |-> what]

\* index()
Index ==
    /\ phase = "serving"
    /\ req' = [op |-> "index"]
    /\ resp' = Redirect
    /\ calls' = <<>>
    /\ UNCHANGED <<phase, CONFIG, PORT, LOGLEVEL, DEBUG, BACKEND_CLASS,
                   dir, FILE_NAMES, liveHandles>>

\* labeldesigner()
LabelDesigner ==
    /\ phase = "serving"
    /\ req' = [op |-> "labeldesigner"]
    /\ resp' = [kind |-> "html", body |-> [files |-> FILE_NAMES, label |-> CONFIG.LABEL]]
    /\ calls' = <<>>
    /\ UNCHANGED <<phase, CONFIG, PORT, LOGLEVEL, DEBUG, BACKEND_CLASS,
                   dir, FILE_NAMES, liveHandles>>

\* FileUpload.save(path) of bottle, overwrite=False: a path that is a
\* directory stands for the file of the upload's name inside it, and a path
\* that exists raises IOError('File exists.')
SaveRaises(d, name) ==
    IF isdir(d, name) THEN d[name] = "dirfull" ELSE exists(d, name)

\* the directory after upload.save(file_path) has written the file
Saved(d, name, content) ==
    IF isdir(d, name) THEN [d EXCEPT ![name] = "dirfull"]
                      ELSE [d EXCEPT ![name] = content]

\* do_upload(), the upload carrying file name `name` and content `content`
Upload(name, content) ==
    /\ phase = "serving"
    /\ req' = [op |-> "upload", file_name |-> name, content |-> content]
    /\ calls' = <<>>
    /\ IF ~Allowed(splitext_ext(name))
       THEN /\ resp' = PlainText("File extension not allowed.")
            /\ UNCHANGED <<dir, FILE_NAMES>>
       ELSE IF SaveRaises(dir, name)
            THEN /\ resp' = Raised("IOError: File exists.")
                 /\ UNCHANGED <<dir, FILE_NAMES>>
            ELSE /\ dir' = Saved(dir, name, content)
                 /\ FILE_NAMES' \in Orders(Listed(dir'))
                 /\ resp' = Redirect
    /\ UNCHANGED <<phase, CONFIG, PORT, LOGLEVEL, DEBUG, BACKEND_CLASS, liveHandles>>

\* image_to_png_bytes(im) of the image with content c transposed by t
image_to_png_bytes(c, t) == <<"png", c, t>>

\* base64.b64encode(bytes)
b64encode(bytes) == <<"base64", bytes>>

\* lines 100-103
PreviewTranspose(orientation) ==
    CASE orientation = "rotated+90" -> "ROTATE_90"
      [] orientation = "rotated-90" -> "ROTATE_270"
      [] OTHER                      -> "none"

\* get_preview_image()
Preview(params, return_format) ==
    /\ phase = "serving"
    /\ req' = [op |-> "preview", params |-> params, return_format |-> return_format]
    /\ IF ContextRaises(params)
       THEN /\ resp' = LookupErrorResponse
            /\ calls' = <<>>
            /\ UNCHANGED FILE_NAMES
       ELSE LET context == get_label_context(params)
            IN  /\ FILE_NAMES' \in Orders(Listed(dir))
                /\ IF ~InList(context.file_name, FILE_NAMES')
                   THEN /\ resp' = PlainText("Image not in directory")
                        /\ calls' = <<>>
                   ELSE LET png == image_to_png_bytes(dir[context.file_name],
                                                      PreviewTranspose(context.orientation))
                        IN  /\ calls' = << <<"Image.open", context.file_name>> >>
                            /\ resp' = IF return_format = "base64"
                                       THEN [kind |-> "text/plain", body |-> b64encode(png)]
                                       ELSE [kind |-> "image/png", body |-> png]
    /\ UNCHANGED <<phase, CONFIG, PORT, LOGLEVEL, DEBUG, BACKEND_CLASS, dir, liveHandles>>

\* os.remove of a path that does not name the file: nothing is removed
Removed_WrongPath(d, name) == d

\* os.remove(IMG_DIR + name)
Removed(d, name) == [d EXCEPT ![name] = "none"]

\* delete_image()
Delete(params) ==
    /\ phase = "serving"
    /\ req' = [op |-> "delete", params |-> params]
    /\ IF ContextRaises(params)
       THEN /\ resp' = LookupErrorResponse
            /\ calls' = <<>>
            /\ UNCHANGED <<dir, FILE_NAMES>>
       ELSE LET context == get_label_context(params)
            IN  \E scan \in Orders(Listed(dir)) :
                  IF ~InList(context.file_name, scan)
                  THEN /\ resp' = PlainText("Image not in directory")
                       /\ calls' = <<>>
                       /\ FILE_NAMES' = scan
                       /\ UNCHANGED dir
                  ELSE /\ dir' = Removed(dir, context.file_name)
                       /\ calls' = << <<"os.remove", context.file_name>> >>
                       /\ FILE_NAMES' \in Orders(Listed(dir'))
                       /\ resp' = Redirect
    /\ UNCHANGED <<phase, CONFIG, PORT, LOGLEVEL, DEBUG, BACKEND_CLASS, liveHandles>>

UNBOUND == "<unbound>"

\* lines 174-177: the local `rotate` when line 180 reads it
RotateOf(kind, orientation) ==
    IF kind = ENDLESS_LABEL
    THEN (IF orientation = "standard" THEN "#0" ELSE "#90")
    ELSE IF kind \in {ROUND_DIE_CUT_LABEL, DIE_CUT_LABEL}
         THEN "auto"
         ELSE UNBOUND

\* qlr.data after create_label(qlr, im, label_size, cut=True, rotate=rotate)
RasterData(model, content, label_size, rotate) == <<model, content, label_size, rotate>>

\* str(qlr.data)
StrOf(data) == <<"str", data>>

\* the transmission step with the write sent a second time
Transmit_WriteTwice(printer, data, be) ==
    CASE be = "ok" ->
           [calls |-> << <<"BACKEND_CLASS", printer>>, <<"be.write", data>>,
                         <<"be.write", data>>, <<"be.dispose", printer>> >>,
            open |-> 0, caught |-> FALSE]
      [] be = "constructor raises" ->
           [calls |-> << <<"BACKEND_CLASS", printer>> >>,
            open |-> 0, caught |-> TRUE]
      [] be = "write raises" ->
           [calls |-> << <<"BACKEND_CLASS", printer>>, <<"be.write", data>> >>,
            open |-> 1, caught |-> TRUE]

\* lines 182-191: what the transmission step does when the backend behaves as
\* `be` says: the calls made, the handles left open, the exception caught
Transmit(printer, data, be) ==
    CASE be = "ok" ->
           [calls |-> << <<"BACKEND_CLASS", printer>>, <<"be.write", data>>,
                         <<"be.dispose", printer>> >>,
            open |-> 0, caught |-> FALSE]
      [] be = "constructor raises" ->
           [calls |-> << <<"BACKEND_CLASS", printer>> >>,
            open |-> 0, caught |-> TRUE]
      [] be = "write raises" ->
           [calls |-> << <<"BACKEND_CLASS", printer>>, <<"be.write", data>> >>,
            open |-> 1, caught |-> TRUE]

BackendBehaviours == {"ok", "constructor raises", "write raises"}

\* print_image()
PrintImage(params) ==
    /\ phase = "serving"
    /\ req' = [op |-> "print", params |-> params]
    /\ IF ContextRaises(params)
       THEN /\ resp' = LookupErrorResponse
            /\ calls' = <<>>
            /\ UNCHANGED <<FILE_NAMES, liveHandles>>
       ELSE LET context == get_label_context(params)
                rotate  == RotateOf(context.kind, context.orientation)
                data    == RasterData(CONFIG.PRINTER.MODEL, dir[context.file_name],
                                      context.label_size, rotate)
                opened  == << <<"Image.open", context.file_name>>,
                              <<"BrotherQLRaster", CONFIG.PRINTER.MODEL>> >>
                encoded == Append(opened, <<"create_label", <<context.label_size, rotate>>>>)
            IN  /\ FILE_NAMES' \in Orders(Listed(dir))
                /\ IF ~InList(context.file_name, FILE_NAMES')
                   THEN /\ resp' = Json([success |-> FALSE,
                                         message |-> "Image not in directory"])
                        /\ calls' = <<>>
                        /\ UNCHANGED liveHandles
                   ELSE IF rotate = UNBOUND
                   THEN /\ resp' = Raised("UnboundLocalError: rotate")
                        /\ calls' = opened
                        /\ UNCHANGED liveHandles
                   ELSE \E encoderRaises \in BOOLEAN, be \in BackendBehaviours :
                        IF encoderRaises
                        THEN /\ be = "ok"
                             /\ resp' = Raised("create_label")
                             /\ calls' = encoded
                             /\ UNCHANGED liveHandles
                        ELSE IF DEBUG
                        THEN /\ be = "ok"
                             /\ resp' = Json([success |-> TRUE, data |-> StrOf(data)])
                             /\ calls' = encoded
                             /\ UNCHANGED liveHandles
                        ELSE LET t == Transmit(CONFIG.PRINTER.PRINTER, data, be)
                             IN  /\ liveHandles + t.open <= MaxLiveHandles
                                 /\ liveHandles' = liveHandles + t.open
                                 /\ calls' = encoded \o t.calls
                                 /\ resp' = IF t.caught
                                            THEN Json([success |-> FALSE, message |-> be])
                                            ELSE Json([success |-> TRUE])
    /\ UNCHANGED <<phase, CONFIG, PORT, LOGLEVEL, DEBUG, BACKEND_CLASS, dir>>

\* the server is running: main() was run without command-line arguments on
\* a configuration file it accepts
Init ==
    /\ phase = "serving"
    /\ \E cfg \in ConfigFiles :
         /\ StartupOutcome(ResolvedConfig(cfg, parse_args(NoArguments))) = "run"
         /\ CONFIG = ResolvedConfig(cfg, parse_args(NoArguments))
         /\ PORT = ResolvedPort(cfg, parse_args(NoArguments))
         /\ LOGLEVEL = ResolvedLoglevel(cfg, parse_args(NoArguments))
         /\ req = [op |-> "main", cmd |-> NoArguments, file |-> cfg]
    /\ DEBUG = DebugOf(LOGLEVEL)
    /\ BACKEND_CLASS = guess_backend(CONFIG.PRINTER.PRINTER)
    /\ dir \in InitDirs
    /\ FILE_NAMES \in Orders(Listed(dir))
    /\ resp = [kind |-> "run", body |-> PORT]
    /\ calls = <<>>
    /\ liveHandles = 0

Next ==
    \/ Index
    \/ LabelDesigner
    \/ \E name \in UploadNames, content \in Contents : Upload(name, content)
    \/ \E params \in PreviewParams, return_format \in {"png", "base64"} :
         Preview(params, return_format)
    \/ \E params \in DeleteParams : Delete(params)
    \/ \E params \in PrintParams : PrintImage(params)

Spec == Init /\ [][Next]_vars

(***************************************************************************)
(* What the last request was about                                         *)
(***************************************************************************)
IsRequest(op) == phase = "serving" /\ req.op = op

\* the file name the last preview, delete or print request names
ReqFile == Get(req.params.file_name, IMAGE_PNG)

ReqSize == Get(req.params.label_size, "62")

ReqOrientation == Get(req.params.orientation, "standard")

\* the positions of the calls of f among the calls of the last request
CallsOf(f) == {i \in 1..Len(calls) : calls[i][1] = f}

BackendCalls == CallsOf("BACKEND_CLASS") \cup CallsOf("be.write") \cup CallsOf("be.dispose")

EncoderCalls == CallsOf("BrotherQLRaster") \cup CallsOf("create_label")

NotInDirectory(r) ==
    /\ r.kind = "json"
    /\ r.body.success = FALSE
    /\ "message" \in DOMAIN r.body
    /\ r.body.message # ""

C2_RejectedUploadChangesNothing ==
    [][ (req'.op = "upload" /\ splitext_ext(req'.file_name) \notin IMAGE_EXTENSIONS)
        => /\ resp'.kind = "text"
           /\ resp'.body # ""
           /\ dir' = dir
           /\ FILE_NAMES' = FILE_NAMES ]_vars

C2_Witness ==
    /\ IsRequest("upload")
    /\ req.file_name = D_UPPER
    /\ resp = PlainText("File extension not allowed.")
    /\ dir[D_UPPER] = "none"
    /\ Len(FILE_NAMES) = 2

(***************************************************************************)
(* C3                                                                      *)
(***************************************************************************)
\* C3: a print request whose file_name is not in the image store (the scan of
\* the directory at the time of the request) returns success = false with a
\* non-empty message, and calls neither the encoder nor the backend, in debug
\* mode and in non-debug mode alike.
C3_MissingImageIsReported ==
    (IsRequest("print") /\ ReqFile \notin Listed(dir))
    => /\ NotInDirectory(resp)
       /\ EncoderCalls = {}
       /\ BackendCalls = {}

(***************************************************************************)
(* C4                                                                      *)
(***************************************************************************)
\* the failure kinds of a print request
ParameterError == ContextRaises(req.params)

MissingImage == ~ParameterError /\ ReqFile \notin Listed(dir)

BackendRaised == CallsOf("BACKEND_CLASS") # {} /\ CallsOf("be.dispose") = {}

\* C4: a print request that fails by a missing image, a parameter error or
\* an exception of the backend returns a result with success = false and a
\* message field; none of them escapes as an exception.
C4_FailuresReturnMessage ==
    (IsRequest("print") /\ (ParameterError \/ MissingImage \/ BackendRaised))
    => /\ resp.kind = "json"
       /\ resp.body.success = FALSE
       /\ "message" \in DOMAIN resp.body

(***************************************************************************)
(* C5                                                                      *)
(***************************************************************************)
\* the directive the claim gives for a kind and an orientation
C5_Directive(kind, orientation) ==
    CASE kind \in {DIE_CUT_LABEL, ROUND_DIE_CUT_LABEL} -> {"auto"}
      [] kind = ENDLESS_LABEL -> IF orientation = "standard" THEN {"#0"} ELSE {"#90"}
      [] OTHER -> {"#0", "#90", "auto"}

\* C5: a print request that gets as far as the encoder, for any label size
\* of the catalog, calls create_label with a bound rotation directive: 'auto'
\* for die-cut and round die-cut, 0 or 90 by the orientation for endless.
C5_RotateBoundAndByKind ==
    (IsRequest("print") /\ CallsOf("BrotherQLRaster") # {})
    => \E i \in CallsOf("create_label") :
         /\ calls[i][2][1] = ReqSize
         /\ calls[i][2][2] \in C5_Directive(label_kind(ReqSize), ReqOrientation)

(***************************************************************************)
(* C6                                                                      *)
(***************************************************************************)
\* the buffer the encoder produced in the last print request
C6_Encoded ==
    RasterData(CONFIG.PRINTER.MODEL, dir[ReqFile], ReqSize,
               RotateOf(label_kind(ReqSize), ReqOrientation))

C6_NonDebug ==
    (IsRequest("print") /\ ~DEBUG /\ resp.kind = "json")
    => /\ "data" \notin DOMAIN resp.body
       /\ resp.body.success
          => /\ Cardinality(CallsOf("be.write")) = 1
             /\ \A i \in CallsOf("be.write") : calls[i][2] = C6_Encoded

\* C6 as stated: in debug mode every print response carries the encoded
\* buffer in a data field and no backend is constructed, written or disposed;
\* in non-debug mode no response carries data and a successful print wrote
\* the encoded buffer exactly once.
C6_DebugEchoesAlways ==
    /\ (IsRequest("print") /\ DEBUG)
       => /\ BackendCalls = {}
          /\ resp.kind = "json"
             => /\ "data" \in DOMAIN resp.body
                /\ resp.body.data = StrOf(C6_Encoded)
    /\ C6_NonDebug

\* C6 amended: in debug mode every successful print response carries the
\* encoded buffer in a data field (a response that reports a failure carries
\* none); the rest as stated.
C6_DebugEchoesOnSuccess ==
    /\ (IsRequest("print") /\ DEBUG)
       => /\ BackendCalls = {}
          /\ (resp.kind = "json" /\ resp.body.success)
             => /\ "data" \in DOMAIN resp.body
                /\ resp.body.data = StrOf(C6_Encoded)
          /\ (resp.kind = "json" /\ ~resp.body.success)
             => "data" \notin DOMAIN resp.body
    /\ C6_NonDebug

C6_WitnessDebug ==
    /\ IsRequest("print") /\ DEBUG
    /\ resp.kind = "json" /\ resp.body.success
    /\ resp.body.data = StrOf(<<"QL-500", "c2", "29x90", "auto">>)

(***************************************************************************)
(* C7                                                                      *)
(***************************************************************************)
\* C7: an upload with an allow-listed extension whose name is that of a file
\* already in the image directory replaces the file's content, leaves the
\* name in the listing exactly once and redirects to the designer page.
C7_SameNameUploadOverwrites ==
    [][ (req'.op = "upload" /\ splitext_ext(req'.file_name) \in IMAGE_EXTENSIONS
           /\ isfile(dir, req'.file_name))
        => /\ resp' = Redirect
           /\ dir'[req'.file_name] = req'.content
           /\ Count(req'.file_name, FILE_NAMES') = 1 ]_vars

(***************************************************************************)
(* C8                                                                      *)
(***************************************************************************)
\* the value an option resolves to, by the claim: the argument when it is
\* on the command line, the value of the file when it is not
C8_Resolved(raw, parsed, fileValue) == IF raw = ABSENT THEN fileValue ELSE parsed

\* C8: after main(), every option on the command line has overridden the
\* value of the configuration file and every other value is the file's; the
\* server runs exactly if the printer address maps to a backend and the
\* default label size is in the catalog, and main() ends in a usage error
\* otherwise.
C8_ArgumentsOverride ==
    (phase # "loaded" /\ req.op = "main")
    => LET cmd == req.cmd
           args == parse_args(cmd)
           file == req.file
       IN  /\ PORT = C8_Resolved(cmd.port, args.port, file.SERVER.PORT)
           /\ LOGLEVEL = C8_Resolved(cmd.loglevel, args.loglevel, file.SERVER.LOGLEVEL)
           /\ CONFIG.LABEL.DEFAULT_SIZE
                = C8_Resolved(cmd.default_label_size, args.default_label_size,
                              file.LABEL.DEFAULT_SIZE)
           /\ CONFIG.LABEL.DEFAULT_ORIENTATION
                = C8_Resolved(cmd.default_orientation, args.default_orientation,
                              file.LABEL.DEFAULT_ORIENTATION)
           /\ CONFIG.PRINTER.MODEL
                = C8_Resolved(cmd.model, args.model, file.PRINTER.MODEL)
           /\ CONFIG.PRINTER.PRINTER
                = C8_Resolved(cmd.printer, args.printer, file.PRINTER.PRINTER)
           /\ phase = "serving"
                <=> /\ guess_backend(CONFIG.PRINTER.PRINTER) # "ValueError"
                    /\ CONFIG.LABEL.DEFAULT_SIZE \in label_sizes
           /\ phase # "serving" => (phase = "exited" /\ resp.kind = "usage_error")

(***************************************************************************)
(* C9                                                                      *)
(***************************************************************************)
\* C9: in non-debug mode a print request that acquired a backend handle (the
\* constructor returned, so write was called) has disposed of it when the
\* request returns, also when write raised; no handle is left open.
C9_HandleReleased ==
    /\ (IsRequest("print") /\ ~DEBUG)
       => \A i \in CallsOf("be.write") : \E j \in CallsOf("be.dispose") : i < j
    /\ liveHandles = 0

(***************************************************************************)
(* C10                                                                     *)
(***************************************************************************)
C10_ErrorResult(op, r) ==
    IF op = "print" THEN NotInDirectory(r) /\ r.body.message = "Image not in directory"
    ELSE r = PlainText("Image not in directory")

\* C10: preview, delete and print open, remove or encode a file only when
\* its name is in the scan of the image directory at the time of the request
\* (a regular file with an allow-listed extension); when it is not, they
\* return the error result 'Image not in directory' and the directory is
\* unchanged.
C10_ActsOnlyOnListedImages ==
    [][ (req'.op \in {"preview", "delete", "print"})
        => LET name == Get(req'.params.file_name, IMAGE_PNG)
           IN  /\ calls' # <<>>
                  => /\ name \in Listed(dir)
                     /\ isfile(dir, name)
                     /\ splitext_ext(name) \in IMAGE_EXTENSIONS
               /\ name \notin Listed(dir)
                  => /\ C10_ErrorResult(req'.op, resp')
                     /\ dir' = dir ]_vars

====
